---- MODULE Spec2Model ----
(***************************************************************************)
(* unitysync: synchronisation of asset folders between a local Unity       *)
(* project and an origin project (src/unitysync.py).                       *)
(*                                                                         *)
(* The filesystem is a map from paths (sequences of names) to nodes.  The  *)
(* root of the map stands for the working directory: it holds the origin   *)
(* project's Assets folder "O", the local project's Assets folder "L" and, *)
(* possibly, a file named ".meta".  A command is run step by step: one     *)
(* step per validate call, per handler call of visit_dcmp, per lazy        *)
(* dircmp phase and per descent into / return from a sub-comparison.       *)
(*                                                                         *)
(* shutil, os and filecmp are modelled by what they do on such a map:      *)
(* copytree refuses an existing target, copy2 keeps data and mtime and     *)
(* copies into a target that is a folder, dircmp lists lazily, drops the   *)
(* names of DEFAULT_IGNORES, compares regular files by size, mtime and     *)
(* then content, and sets aside the names whose two types differ.  An      *)
(* exception leaves the run at once (status "raised").                     *)
(*                                                                         *)
(* The depend file declares one origin project with the assets A and B;    *)
(* both Assets folders exist; symbolic links and unreadable entries are    *)
(* not modelled.                                                           *)
(***************************************************************************)
EXTENDS Naturals, Sequences, FiniteSets, TLC

VARIABLES fs, status, cmd, conf, pair, stack, log, fs0, prev, runs

vars == <<fs, status, cmd, conf, pair, stack, log, fs0, prev, runs>>

(* ------------------------------ bounds --------------------------------- *)

\* number of commands run one after the other in one behaviour
MaxRuns == 2

\* longest chain of ".meta" suffixes for which names are ordered
MaxSuffix == 4

(* ------------------------------- names --------------------------------- *)

Meta(n) == n \o ".meta"

RECURSIVE Suffixed(_, _)
Suffixed(b, k) == IF k = 0 THEN <<b>> ELSE <<b>> \o Suffixed(Meta(b), k - 1)

\* the names of the model in Python's string order (list.sort of phase0)
NameOrder ==
    Suffixed("", MaxSuffix + 2) \o Suffixed("A", MaxSuffix + 2)
      \o Suffixed("B", MaxSuffix + 2) \o Suffixed("x", MaxSuffix + 2)
      \o Suffixed("y", MaxSuffix + 2) \o Suffixed("z", MaxSuffix + 2)

Rank(n) == CHOOSE i \in DOMAIN NameOrder : NameOrder[i] = n

RECURSIVE SortNames(_)
SortNames(S) ==
    IF S = {} THEN <<>>
    ELSE LET m == CHOOSE n \in S : \A o \in S : Rank(n) <= Rank(o)
         IN  <<m>> \o SortNames(S \ {m})

Range(s) == {s[i] : i \in DOMAIN s}

(* ----------------------------- filesystem ------------------------------ *)

DIR == [kind |-> "dir", data |-> <<>>, mtime |-> 0]
File(d, t) == [kind |-> "file", data |-> d, mtime |-> t]

F1 == File(<<1>>, 1)
F2 == File(<<2>>, 2)
F3 == File(<<3, 3>>, 1)

Exists(f, p) == p \in DOMAIN f
isdir(f, p)  == p \in DOMAIN f /\ f[p].kind = "dir"
isfile(f, p) == p \in DOMAIN f /\ f[p].kind = "file"

IsPrefix(p, q) == Len(p) <= Len(q) /\ SubSeq(q, 1, Len(p)) = p
Under(f, p)  == {q \in DOMAIN f : IsPrefix(p, q)}
Parent(p)    == SubSeq(p, 1, Len(p) - 1)
Basename(p)  == p[Len(p)]
join(p, n)   == Append(p, n)
listdir(f, p) == {q[Len(p) + 1] : q \in {r \in DOMAIN f : Len(r) = Len(p) + 1 /\ IsPrefix(p, r)}}

Remove(f, S) == [q \in DOMAIN f \ S |-> f[q]]
Put(f, p, node) == [q \in DOMAIN f \cup {p} |-> IF q = p THEN node ELSE f[q]]

\* the part of the filesystem below (and including) path p
Tree(f, p) == [q \in Under(f, p) |-> f[q]]

Ok(f)     == [fs |-> f, raised |-> FALSE]
Raise(f)  == [fs |-> f, raised |-> TRUE]

\* shutil.copytree(src, dst): os.makedirs(dst) fails when dst exists; files are
\* copied with copy2, so data and mtime are kept
copytree(f, src, dst) ==
    IF Exists(f, dst) THEN Raise(f)
    ELSE LET moved(q) == dst \o SubSeq(q, Len(src) + 1, Len(q))
             new == {moved(q) : q \in Under(f, src)}
         IN  Ok([q \in DOMAIN f \cup new |->
                   IF q \in new
                   THEN f[CHOOSE r \in Under(f, src) : moved(r) = q]
                   ELSE f[q]])

\* shutil.copy2(src, dst): dst names the target, or the directory to copy into
copy2(f, src, dst) ==
    IF ~isfile(f, src) THEN Raise(f)
    ELSE LET target == IF isdir(f, dst) THEN join(dst, Basename(src)) ELSE dst
         IN  IF isdir(f, target) \/ ~isdir(f, Parent(target)) THEN Raise(f)
             ELSE Ok(Put(f, target, f[src]))

\* shutil.rmtree(path)
rmtree(f, p) == Ok(Remove(f, Under(f, p)))

\* os.remove(path)
os_remove(f, p) == IF isfile(f, p) THEN Ok(Remove(f, {p})) ELSE Raise(f)

(* ------------------------------ events --------------------------------- *)

\* what a run prints and does, in order; a and b are paths
Ev(op, p, a, b) == [op |-> op, pair |-> p, a |-> a, b |-> b]

Res(f, raised, ev) == [fs |-> f, raised |-> raised, ev |-> ev]

(* --------------------------- AssetComparer ----------------------------- *)

\* the working directory's ".meta"
CwdMeta == <<".meta">>

\* dest + '.meta'
MetaPath(path) == join(Parent(path), Meta(Basename(path)))

\* line 43, "src_metafile = src = '.meta'": the name tested and copied is the
\* relative path '.meta', whatever src is
src_metafile(src) == CwdMeta

\* lines 38-45: the copy itself, then the sidecar
do_copy(f, p, src, dest) ==
    LET said == <<Ev("copy", p, src, dest)>>
        r1   == IF isdir(f, src) THEN copytree(f, src, dest) ELSE copy2(f, src, dest)
    IN  IF r1.raised THEN Res(f, TRUE, said)
        ELSE LET meta  == src_metafile(src)
                 said2 == said \o <<Ev("copied", p, src, dest), Ev("sidecar", p, meta, MetaPath(dest))>>
             IN  IF isfile(r1.fs, meta)
                 THEN LET r2 == copy2(r1.fs, meta, MetaPath(dest)) IN
                      IF r2.raised THEN Res(r1.fs, TRUE, said2)
                      ELSE Res(r2.fs, FALSE, said2 \o <<Ev("sidecar_copy", p, meta, MetaPath(dest))>>)
                 ELSE Res(r1.fs, FALSE, said2)

\* a copy_asset that does not look at the preview flag
copy_asset_no_preview(f, preview, p, src, dest) == do_copy(f, p, src, dest)

\* lines 32-45
copy_asset(f, preview, p, src, dest) ==
    IF preview THEN Res(f, FALSE, <<Ev("copy", p, src, dest)>>)
    ELSE do_copy(f, p, src, dest)

remove_asset(f, preview, p, path) ==
    LET said == <<Ev("remove", p, path, <<>>)>> IN
    IF preview THEN Res(f, FALSE, said)
    ELSE LET r == IF isdir(f, path) THEN rmtree(f, path) ELSE os_remove(f, path) IN
         IF r.raised THEN Res(f, TRUE, said)
         ELSE Res(r.fs, FALSE, said \o <<Ev("removed", p, path, <<>>)>>)

(* ----------------------------- comparers ------------------------------- *)

Cmd(name, clean, preview) == [name |-> name, clean |-> clean, preview |-> preview]

\* DiffComparer() is built with preview False and has no clean flag
DiffCmd == Cmd("diff", FALSE, FALSE)

Cmds == {DiffCmd} \cup {Cmd(n, c, v) : n \in {"pull", "push"}, c \in BOOLEAN, v \in BOOLEAN}

VRes(r, ret) == [fs |-> r.fs, raised |-> r.raised, ev |-> r.ev, ret |-> ret]

DiffComparer_validate(f, p, origin, local) ==
    IF ~isdir(f, local) THEN VRes(Res(f, FALSE, <<Ev("L", p, origin, <<>>)>>), FALSE)
    ELSE IF ~isdir(f, origin) THEN VRes(Res(f, FALSE, <<Ev("R", p, local, <<>>)>>), FALSE)
    ELSE VRes(Res(f, FALSE, <<>>), TRUE)

\* a validate that lets the walk run after the bootstrap copy
PullComparer_validate_walks(f, c, p, origin, local) ==
    IF ~isdir(f, local) THEN VRes(copy_asset(f, c.preview, p, origin, local), TRUE)
    ELSE IF ~isdir(f, origin) THEN VRes(Res(f, FALSE, <<>>), FALSE)
    ELSE VRes(Res(f, FALSE, <<>>), TRUE)

PullComparer_validate(f, c, p, origin, local) ==
    IF ~isdir(f, local) THEN VRes(copy_asset(f, c.preview, p, origin, local), FALSE)
    ELSE IF ~isdir(f, origin) THEN VRes(Res(f, FALSE, <<>>), FALSE)
    ELSE VRes(Res(f, FALSE, <<>>), TRUE)

PushComparer_validate(f, c, p, origin, local) ==
    IF ~isdir(f, local) THEN VRes(Res(f, FALSE, <<>>), FALSE)
    ELSE IF ~isdir(f, origin) THEN VRes(copy_asset(f, c.preview, p, local, origin), FALSE)
    ELSE VRes(Res(f, FALSE, <<>>), TRUE)

validate(f, c, p, origin, local) ==
    IF c.name = "diff" THEN DiffComparer_validate(f, p, origin, local)
    ELSE IF c.name = "pull" THEN PullComparer_validate(f, c, p, origin, local)
    ELSE PushComparer_validate(f, c, p, origin, local)

DiffComparer_left_only(f, p, left, right, asset)  == Res(f, FALSE, <<Ev("L", p, join(left, asset), <<>>)>>)
DiffComparer_right_only(f, p, left, right, asset) == Res(f, FALSE, <<Ev("R", p, join(right, asset), <<>>)>>)
DiffComparer_diff(f, p, left, right, asset)       == Res(f, FALSE, <<Ev("D", p, join(right, asset), <<>>)>>)

PullComparer_left_only(f, c, p, left, right, asset) ==
    copy_asset(f, c.preview, p, join(left, asset), join(right, asset))
PullComparer_right_only(f, c, p, left, right, asset) ==
    IF c.clean THEN remove_asset(f, c.preview, p, join(right, asset)) ELSE Res(f, FALSE, <<>>)
\* a pull handler that copies the way push does
PullComparer_diff_reversed(f, c, p, left, right, asset) ==
    copy_asset(f, c.preview, p, join(right, asset), join(left, asset))

PullComparer_diff(f, c, p, left, right, asset) ==
    copy_asset(f, c.preview, p, join(left, asset), join(right, asset))

PushComparer_left_only(f, c, p, left, right, asset) ==
    IF c.clean THEN remove_asset(f, c.preview, p, join(left, asset)) ELSE Res(f, FALSE, <<>>)
PushComparer_right_only(f, c, p, left, right, asset) ==
    copy_asset(f, c.preview, p, join(right, asset), join(left, asset))
PushComparer_diff(f, c, p, left, right, asset) ==
    copy_asset(f, c.preview, p, join(right, asset), join(left, asset))

left_only(f, c, p, left, right, asset) ==
    IF c.name = "diff" THEN DiffComparer_left_only(f, p, left, right, asset)
    ELSE IF c.name = "pull" THEN PullComparer_left_only(f, c, p, left, right, asset)
    ELSE PushComparer_left_only(f, c, p, left, right, asset)

right_only(f, c, p, left, right, asset) ==
    IF c.name = "diff" THEN DiffComparer_right_only(f, p, left, right, asset)
    ELSE IF c.name = "pull" THEN PullComparer_right_only(f, c, p, left, right, asset)
    ELSE PushComparer_right_only(f, c, p, left, right, asset)

diff(f, c, p, left, right, asset) ==
    IF c.name = "diff" THEN DiffComparer_diff(f, p, left, right, asset)
    ELSE IF c.name = "pull" THEN PullComparer_diff(f, c, p, left, right, asset)
    ELSE PushComparer_diff(f, c, p, left, right, asset)

(* ---------------------------- filecmp.dircmp --------------------------- *)

\* filecmp.DEFAULT_IGNORES: dircmp(a, b) is built without an ignore list
DEFAULT_IGNORES == {"RCS", "CVS", "tags", ".git", ".hg", ".bzr", "_darcs", "__pycache__"}

\* phase0: the two listings without the ignored names
phase0(f, path) == listdir(f, path) \ DEFAULT_IGNORES

\* filecmp.cmp(f1, f2, shallow=True) on two regular files
Size(node) == Len(node.data)
cmp(a, b) ==
    IF Size(a) = Size(b) /\ a.mtime = b.mtime THEN TRUE
    ELSE IF Size(a) # Size(b) THEN FALSE
    ELSE a.data = b.data

\* phase2: the common names that are directories on both sides
common_dirs(f, left, right, common) ==
    {n \in common : isdir(f, join(left, n)) /\ isdir(f, join(right, n))}

\* phase2: the common names that are regular files on both sides
common_files(f, left, right, common) ==
    {n \in common : isfile(f, join(left, n)) /\ isfile(f, join(right, n))}

\* phase2: the common names of two types, or that cannot be stat'ed
common_funny(f, left, right, common) ==
    common \ (common_dirs(f, left, right, common) \cup common_files(f, left, right, common))

\* a phase3 that reports the names of two types as different files
diff_files_with_funny(f, left, right, common) ==
    {n \in common_files(f, left, right, common) : ~cmp(f[join(left, n)], f[join(right, n)])}
        \cup common_funny(f, left, right, common)

\* phase3: cmpfiles over the common files
diff_files(f, left, right, common) ==
    {n \in common_files(f, left, right, common) : ~cmp(f[join(left, n)], f[join(right, n)])}

\* dircmp(left, right) at the first read of left_only: phase0 and phase1 have
\* run, phase2 to phase4 have not.  lo0, ro0, df0 and sd0 keep the lists as they
\* were computed and seen the calls made at this level (history only)
dircmp(f, left, right) ==
    LET ll == phase0(f, left)
        rl == phase0(f, right)
    IN  [left       |-> left,
         right      |-> right,
         left_only  |-> SortNames(ll \ rl),
         right_only |-> SortNames(rl \ ll),
         common     |-> SortNames(ll \cap rl),
         phase3     |-> FALSE,
         diff_files |-> <<>>,
         subdirs    |-> <<>>,
         funny      |-> {},
         lo0        |-> SortNames(ll \ rl),
         ro0        |-> SortNames(rl \ ll),
         df0        |-> <<>>,
         sd0        |-> <<>>,
         seen       |-> <<>>]

(* ------------------------- manifest discovery -------------------------- *)

\* the working directory is CwdLevel directories below the filesystem root
CwdLevel == 1

\* Python's None, which "if not conf" and "if not root" take as false
None == <<>>

\* local_root(dependfile): the nearest directory, from the working directory
\* up to the root (level 0), that holds the depend file; has = the levels that
\* do.  The directory found is returned as a one-element path.
RECURSIVE local_root(_, _)
local_root(has, curdir) ==
    IF curdir \in has THEN <<curdir>>
    ELSE IF curdir = 0 THEN None
    ELSE local_root(has, curdir - 1)

\* the depend file, when found, declares one project with these assets
Manifest == <<"A", "B">>

load_conf(has) == IF local_root(has, CwdLevel) = None THEN None ELSE Manifest

\* the names line 175 can read: the parameters and locals of compare_projects
\* and the names the module binds
compare_projects_scope ==
    {"args", "comparer", "conf",
     "sys", "logging", "os", "json", "dircmp", "shutil", "argparse", "ABCMeta", "abstractmethod",
     "AssetComparer", "DiffComparer", "PullComparer", "PushComparer", "visit_dcmp",
     "local_root", "load_conf", "compare_projects", "diff_cmd", "pull_cmd", "push_cmd",
     "parser", "subparsers", "diff_parser", "pull_parser", "push_parser", "loglevel"}

\* lines 174-176 when conf is None: the message is formatted with the name
\* dependfile, which nothing binds, so NameError is raised and nothing is printed
no_conf ==
    IF "dependfile" \in compare_projects_scope
    THEN [raised |-> FALSE, ev |-> <<Ev("no_depend_file", 0, <<>>, <<>>)>>]
    ELSE [raised |-> TRUE, ev |-> <<>>]

origin_path(asset) == <<"O", asset>>
local_path(asset)  == <<"L", asset>>

(* ------------------------------- Init ---------------------------------- *)

At(prefix, S) == {<<prefix \o e[1], e[2]>> : e \in S}
MkFs(S) == [q \in {e[1] : e \in S} |-> (CHOOSE e \in S : e[1] = q)[2]]

XOpts == { {},
           {<< <<"x">>, F1 >>},
           {<< <<"x">>, F2 >>},
           {<< <<"x">>, DIR >>},
           {<< <<"x">>, DIR >>, << <<"x", "y">>, F1 >>},
           {<< <<"x">>, DIR >>, << <<"x", "y">>, F2 >>},
           {<< <<"x">>, DIR >>, << <<"x", "y">>, DIR >>} }

MOpts == { {},
           {<< <<"x.meta">>, F2 >>},
           {<< <<"x.meta">>, DIR >>} }

\* an asset path: absent, a regular file, a folder that holds only z, or a
\* folder with x and x.meta as above
AssetOpts == { {}, {<< <<>>, F1 >>}, {<< <<>>, DIR >>, << <<"z">>, F1 >>} }
               \cup { {<< <<>>, DIR >>} \cup a \cup b : a \in XOpts, b \in MOpts }

\* the second asset: an origin folder with one file against an empty local one
SecondOrigin == {<< <<>>, DIR >>, << <<"x">>, F1 >>}
SecondLocal  == {<< <<>>, DIR >>}

CwdOpts == { {}, {<< CwdMeta, F3 >>} }

NoRun == [cmd |-> DiffCmd, status |-> "idle", log |-> <<>>, fs |-> <<>>]

Init ==
    /\ \E oa \in AssetOpts, la \in AssetOpts, m \in CwdOpts :
          fs = MkFs({<< <<"O">>, DIR >>, << <<"L">>, DIR >>}
                      \cup At(origin_path("A"), oa) \cup At(local_path("A"), la)
                      \cup At(origin_path("B"), SecondOrigin) \cup At(local_path("B"), SecondLocal)
                      \cup m)
    /\ status = "idle"
    /\ cmd = DiffCmd
    /\ conf = None
    /\ pair = 1
    /\ stack = <<>>
    /\ log = <<>>
    /\ fs0 = fs
    /\ prev = NoRun
    /\ runs = 0

(* ------------------------------ actions -------------------------------- *)

top == stack[Len(stack)]
Pop == SubSeq(stack, 1, Len(stack) - 1)
SetTop(fr) == [stack EXCEPT ![Len(stack)] = fr]

\* the for loop of compare_projects moves to the next asset, or ends
NextAsset ==
    /\ pair' = pair + 1
    /\ status' = IF pair + 1 > Len(Manifest) THEN "done" ELSE "running"

\* diff_cmd / pull_cmd / push_cmd up to the loop of compare_projects (lines
\* 173-178).  A later command of the same behaviour repeats the command or is
\* diff.
StartRun(c, has) ==
    /\ status \in {"idle", "done", "raised"}
    /\ runs < MaxRuns
    /\ runs > 0 => c \in {cmd, DiffCmd}
    /\ runs' = runs + 1
    /\ cmd' = c
    /\ prev' = IF runs = 0 THEN NoRun
               ELSE [cmd |-> cmd, status |-> status, log |-> log, fs |-> fs0]
    /\ fs0' = fs
    /\ stack' = <<>>
    /\ pair' = 1
    /\ conf' = load_conf(has)
    /\ IF load_conf(has) = None
       THEN /\ log' = no_conf.ev
            /\ status' = IF no_conf.raised THEN "raised" ELSE "done"
       ELSE /\ log' = <<>>
            /\ status' = "running"
    /\ UNCHANGED fs

\* lines 184-192 for one asset: validate, then dircmp and the first read of
\* dcmp.left_only in visit_dcmp
Validate ==
    /\ status = "running"
    /\ stack = <<>>
    /\ LET origin == origin_path(Manifest[pair])
           local  == local_path(Manifest[pair])
           r      == validate(fs, cmd, pair, origin, local)
       IN  /\ fs' = r.fs
           /\ IF r.raised
              THEN /\ log' = log \o <<Ev("validate", pair, origin, local)>> \o r.ev
                   /\ status' = "raised"
                   /\ UNCHANGED <<pair, stack>>
              ELSE IF ~r.ret
              THEN /\ log' = log \o <<Ev("validate", pair, origin, local)>> \o r.ev
                                 \o <<Ev("skip", pair, origin, local)>>
                   /\ NextAsset
                   /\ UNCHANGED stack
              ELSE /\ log' = log \o <<Ev("validate", pair, origin, local)>> \o r.ev
                                 \o <<Ev("visit", pair, origin, local)>>
                   /\ stack' = <<dircmp(fs, origin, local)>>
                   /\ UNCHANGED <<pair, status>>
    /\ UNCHANGED <<cmd, conf, fs0, prev, runs>>

\* one handler call: its effect on the filesystem, what it prints, and the
\* exception that ends the run
Handle(op, name, r, fr) ==
    /\ fs' = r.fs
    /\ log' = log \o <<Ev(op, pair, top.left, <<name>>)>> \o r.ev
    /\ IF r.raised
       THEN status' = "raised" /\ UNCHANGED stack
       ELSE status' = status /\ stack' = SetTop([fr EXCEPT !.seen = Append(@, <<op, name>>)])
    /\ UNCHANGED <<cmd, conf, pair, fs0, prev, runs>>

\* lines 135-136
VisitLeftOnly ==
    /\ status = "running" /\ stack # <<>>
    /\ top.left_only # <<>>
    /\ LET name == Head(top.left_only) IN
       Handle("left_only", name, left_only(fs, cmd, pair, top.left, top.right, name),
              [top EXCEPT !.left_only = Tail(@)])

\* lines 138-139
VisitRightOnly ==
    /\ status = "running" /\ stack # <<>>
    /\ top.left_only = <<>> /\ top.right_only # <<>>
    /\ LET name == Head(top.right_only) IN
       Handle("right_only", name, right_only(fs, cmd, pair, top.left, top.right, name),
              [top EXCEPT !.right_only = Tail(@)])

\* line 141, the first read of dcmp.diff_files: phase2 and phase3 run on the
\* filesystem as the two loops above left it
Phase3 ==
    /\ status = "running" /\ stack # <<>>
    /\ top.left_only = <<>> /\ top.right_only = <<>> /\ ~top.phase3
    /\ LET c  == Range(top.common)
           df == SortNames(diff_files(fs, top.left, top.right, c))
           sd == SortNames(common_dirs(fs, top.left, top.right, c))
       IN  stack' = SetTop([top EXCEPT !.phase3 = TRUE,
                                       !.diff_files = df, !.df0 = df,
                                       !.subdirs = sd, !.sd0 = sd,
                                       !.funny = common_funny(fs, top.left, top.right, c)])
    /\ UNCHANGED <<fs, status, cmd, conf, pair, log, fs0, prev, runs>>

\* lines 141-142
VisitDiff ==
    /\ status = "running" /\ stack # <<>>
    /\ top.phase3 /\ top.diff_files # <<>>
    /\ LET name == Head(top.diff_files) IN
       Handle("diff", name, diff(fs, cmd, pair, top.left, top.right, name),
              [top EXCEPT !.diff_files = Tail(@)])

\* lines 144-145: the next sub-comparison is visited; its listings are read now
VisitSubdir ==
    /\ status = "running" /\ stack # <<>>
    /\ top.phase3 /\ top.diff_files = <<>> /\ top.subdirs # <<>>
    /\ LET name == Head(top.subdirs)
           fr   == [top EXCEPT !.subdirs = Tail(@), !.seen = Append(@, <<"visit", name>>)]
       IN  /\ stack' = Append(SetTop(fr), dircmp(fs, join(top.left, name), join(top.right, name)))
           /\ log' = log \o <<Ev("visit", pair, join(top.left, name), join(top.right, name))>>
    /\ UNCHANGED <<fs, status, cmd, conf, pair, fs0, prev, runs>>

\* visit_dcmp returns; at the outermost level the asset loop goes on
Return ==
    /\ status = "running" /\ stack # <<>>
    /\ top.phase3 /\ top.diff_files = <<>> /\ top.subdirs = <<>>
    /\ stack' = Pop
    /\ IF Len(stack) = 1 THEN NextAsset ELSE UNCHANGED <<pair, status>>
    /\ UNCHANGED <<fs, cmd, conf, log, fs0, prev, runs>>

Next ==
    \/ \E c \in Cmds, has \in SUBSET (0 .. CwdLevel) : StartRun(c, has)
    \/ Validate
    \/ VisitLeftOnly
    \/ VisitRightOnly
    \/ Phase3
    \/ VisitDiff
    \/ VisitSubdir
    \/ Return

Spec == Init /\ [][Next]_vars

(* ------------------------- vocabulary of the claims --------------------- *)

Handlers == {"left_only", "right_only", "diff"}
Calls    == Handlers \cup {"validate"}

Ran     == runs > 0 /\ conf # None
Ended   == status \in {"done", "raised"}
Mutates == cmd.name \in {"pull", "push"} /\ ~cmd.preview

Origin(p) == origin_path(Manifest[p])
Local(p)  == local_path(Manifest[p])

Has(l, ops)        == \E i \in DOMAIN l : l[i].op \in ops
HasFor(l, ops, p)  == \E i \in DOMAIN l : l[i].op \in ops /\ l[i].pair = p

Rel(q, root) == SubSeq(q, Len(root) + 1, Len(q))

\* the trees below a and b have the same paths, nodes, data and mtimes
SameTree(f, a, b) ==
    /\ {Rel(q, a) : q \in Under(f, a)} = {Rel(q, b) : q \in Under(f, b)}
    /\ \A q \in Under(f, a) : f[b \o Rel(q, a)] = f[q]

\* the events of the last validate or handler call of the run
LastCall ==
    LET at == {i \in DOMAIN log : log[i].op \in Calls} IN
    IF at = {} THEN <<>>
    ELSE SubSeq(log, CHOOSE i \in at : \A j \in at : j <= i, Len(log))

\* origin is a folder and local does not exist
BootCase(f, p) == isdir(f, Origin(p)) /\ ~Exists(f, Local(p))

\* neither side is a folder
Neither(f, p) == ~isdir(f, Origin(p)) /\ ~isdir(f, Local(p))

\* one side a regular file, the other a folder
Mismatch(f, left, right, n) ==
    \/ isfile(f, join(left, n)) /\ isdir(f, join(right, n))
    \/ isdir(f, join(left, n)) /\ isfile(f, join(right, n))

Pairs == DOMAIN Manifest

(* -------------------------------- C1 ----------------------------------- *)

\* C1: with preview set, a pull or push run leaves the whole filesystem as it
\* was when the run began, at every step of the run (validate, bootstrap case
\* included, left_only, right_only, diff; clean set or not), and never reaches
\* the sidecar test or copy of copy_asset nor a removal.
C1_PreviewNeverMutates ==
    (runs > 0 /\ cmd.preview) =>
        /\ fs = fs0
        /\ ~Has(log, {"copied", "sidecar", "sidecar_copy", "removed"})

\* a finished preview run with clean that announced a bootstrap copy, a copy
\* inside a walk and a removal, in a working directory that holds ".meta"
C1_Witness ==
    /\ status = "done" /\ cmd.preview /\ cmd.clean /\ cmd.name = "pull"
    /\ isfile(fs, CwdMeta)
    /\ \E i \in DOMAIN log : log[i].op = "copy" /\ log[i].b = Local(1) /\ BootCase(fs0, 1)
    /\ \E i \in DOMAIN log : log[i].op = "copy" /\ log[i].pair = 2
    /\ fs = fs0

(* -------------------------------- C2 ----------------------------------- *)

\* C2: when pull (no clean, no preview) has run to its end and is run again,
\* the second run calls neither left_only nor diff, at any level, for a pair
\* whose origin and local folders both existed before the first run.
C2_PullIdempotent ==
    (runs >= 2 /\ conf # None /\ cmd = Cmd("pull", FALSE, FALSE)
       /\ prev.cmd = cmd /\ prev.status = "done") =>
        \A i \in DOMAIN log :
            (log[i].op \in {"left_only", "diff"}
               /\ isdir(prev.fs, Origin(log[i].pair)) /\ isdir(prev.fs, Local(log[i].pair)))
            => FALSE

(* -------------------------------- C3 ----------------------------------- *)

\* C3: when pull (preview off) validates a pair whose origin is a folder and
\* whose local path does not exist, the local tree becomes a copy of the origin
\* tree, the pair is skipped (no visit and no handler call for it in that run),
\* and a diff run right after prints no L, R or D line for that pair.
C3_Bootstrap ==
    \A p \in Pairs :
        /\ (Ran /\ cmd.name = "pull" /\ ~cmd.preview /\ BootCase(fs0, p)
              /\ HasFor(log, {"validate"}, p)) =>
               /\ SameTree(fs, Origin(p), Local(p))
               /\ HasFor(log, {"skip"}, p)
               /\ ~HasFor(log, Handlers \cup {"visit"}, p)
        /\ (runs >= 2 /\ conf # None /\ cmd.name = "diff"
              /\ prev.cmd.name = "pull" /\ ~prev.cmd.preview /\ BootCase(prev.fs, p)
              /\ HasFor(prev.log, {"validate"}, p)) =>
               ~HasFor(log, {"L", "R", "D"}, p)

\* a finished diff run right after a pull that bootstrapped the first asset,
\* whose origin tree has a folder inside it
C3_Witness ==
    /\ runs >= 2 /\ conf # None /\ cmd.name = "diff" /\ status = "done"
    /\ prev.cmd.name = "pull" /\ ~prev.cmd.preview /\ BootCase(prev.fs, 1)
    /\ HasFor(prev.log, {"copied"}, 1)
    /\ isfile(fs, <<"L", "A", "x", "y">>)
    /\ isfile(fs, CwdMeta)
    /\ HasFor(log, {"validate"}, 1)

(* -------------------------------- C4 ----------------------------------- *)

\* C4: after a copy_asset(src, dest) call that copied (preview off), if
\* src + ".meta" is a file then dest + ".meta" is a file with the same content;
\* and every sidecar written at dest + ".meta" was read from src + ".meta".
C4_SidecarPropagation ==
    /\ \A i \in DOMAIN LastCall :
          (LastCall[i].op = "copied" /\ status # "raised"
             /\ isfile(fs, MetaPath(LastCall[i].a))) =>
              /\ isfile(fs, MetaPath(LastCall[i].b))
              /\ fs[MetaPath(LastCall[i].b)] = fs[MetaPath(LastCall[i].a)]
    /\ \A i \in DOMAIN log :
          log[i].op = "sidecar_copy" =>
              \E j \in DOMAIN log :
                  /\ j < i /\ log[j].op = "copied"
                  /\ log[i].a = MetaPath(log[j].a) /\ log[i].b = MetaPath(log[j].b)

(* -------------------------------- C5 ----------------------------------- *)

\* C5: whatever the command and its flags, a validate call on a pair of which
\* neither side is a folder returns false without raising: the pair is skipped
\* and the loop moves to the next declared pair.
C5_InvalidPairSkipped ==
    Ran =>
        \A i \in DOMAIN log :
            (log[i].op = "validate" /\ Neither(fs0, log[i].pair)) =>
                /\ status # "raised"
                /\ HasFor(log, {"skip"}, log[i].pair)
                /\ ~HasFor(log, {"visit"}, log[i].pair)
                /\ (pair > log[i].pair \/ status = "done")

(* -------------------------------- C6 ----------------------------------- *)

\* the names under dir that the other side's folder does not have
OnlyIn(f, dir, other) == listdir(f, dir) \ listdir(f, other)

\* remove_asset has removed the path in this run
Removed(path) == \E j \in DOMAIN log : log[j].op = "removed" /\ log[j].a = path

\* C6: when a run has ended: with clean off (or for diff) no path was removed
\* and remove_asset was not called; pull removes only under local and push only
\* under origin; and with clean and no preview, at every level that was
\* compared, pull has removed every entry the local side had and the origin
\* side did not, push every entry the origin side had and the local side did not.
C6_CleanRemoval ==
    (Ran /\ Ended) =>
        /\ (cmd.name = "diff" \/ ~cmd.clean) =>
               (DOMAIN fs0 \subseteq DOMAIN fs /\ ~Has(log, {"remove", "removed"}))
        /\ cmd.name = "pull" => \A q \in DOMAIN fs0 \ DOMAIN fs : IsPrefix(<<"L">>, q)
        /\ cmd.name = "push" => \A q \in DOMAIN fs0 \ DOMAIN fs : IsPrefix(<<"O">>, q)
        /\ (Mutates /\ cmd.clean) =>
               \A i \in DOMAIN log :
                   log[i].op = "visit" =>
                       IF cmd.name = "pull"
                       THEN \A n \in OnlyIn(fs0, log[i].b, log[i].a) : Removed(join(log[i].b, n))
                       ELSE \A n \in OnlyIn(fs0, log[i].a, log[i].b) : Removed(join(log[i].a, n))

(* -------------------------------- C7 ----------------------------------- *)

\* C7 as claimed: a name present on both sides of a compared level, a regular
\* file on one side and a folder on the other, is among the names handed to the
\* policy's diff handler at that level.
C7_TypeMismatchIsDiff ==
    \A k \in DOMAIN stack :
        stack[k].phase3 =>
            \A n \in Range(stack[k].common) :
                Mismatch(fs, stack[k].left, stack[k].right, n) => n \in Range(stack[k].df0)

\* C7 as amended: such a name is set aside by dircmp (common_funny): at that
\* level the walk calls none of left_only, right_only and diff for it, does not
\* recurse into it, and so Report prints no line for it.
C7_TypeMismatchSkipped ==
    \A k \in DOMAIN stack :
        \A n \in Range(stack[k].common) :
            Mismatch(fs, stack[k].left, stack[k].right, n) =>
                /\ \A j \in DOMAIN stack[k].seen : stack[k].seen[j][2] # n
                /\ stack[k].phase3 =>
                       /\ n \in stack[k].funny
                       /\ n \notin Range(stack[k].df0) \cup Range(stack[k].sd0)
                /\ cmd.name = "diff" =>
                       \A i \in DOMAIN log :
                           log[i].op \in {"L", "R", "D"} =>
                               log[i].a \notin {join(stack[k].left, n), join(stack[k].right, n)}

\* a diff run that has finished the calls of a level below an asset folder in
\* which y is a regular file on one side and a folder on the other
C7_Witness ==
    /\ status = "running" /\ cmd.name = "diff" /\ Len(stack) = 2
    /\ top.phase3 /\ top.diff_files = <<>> /\ top.subdirs = <<>>
    /\ "y" \in top.funny
    /\ Mismatch(fs, top.left, top.right, "y")

(* -------------------------------- C8 ----------------------------------- *)

\* C8: when no depend file is found in the working directory or above it, the
\* command prints the "No depend file" message and ends, having called neither
\* validate nor copy_asset nor remove_asset and having changed no path.
C8_NoManifest ==
    (runs > 0 /\ conf = None) =>
        /\ Has(log, {"no_depend_file"})
        /\ ~Has(log, Calls \cup {"copy", "remove", "visit"})
        /\ fs = fs0

(* -------------------------------- C9 ----------------------------------- *)

Calls_of(op, names) == [i \in DOMAIN names |-> <<op, names[i]>>]

\* the calls a level has still to make, and all the calls it has to make
Pending(fr) ==
    Calls_of("left_only", fr.left_only) \o Calls_of("right_only", fr.right_only)
      \o Calls_of("diff", fr.diff_files) \o Calls_of("visit", fr.subdirs)
Full(fr) ==
    Calls_of("left_only", fr.lo0) \o Calls_of("right_only", fr.ro0)
      \o Calls_of("diff", fr.df0) \o Calls_of("visit", fr.sd0)

\* C9: at every level of the walk of a pair whose validate returned true, the
\* calls made so far and the calls still to make are together one call per
\* left-only name, per right-only name and per differing file and one visit per
\* folder the two sides share; no name is both handed to a handler and visited;
\* a walk that has begun makes all its calls (the run does not end inside it);
\* and the pairs are validated in the order of the manifest.
C9_WalkDispatch ==
    /\ \A k \in DOMAIN stack :
          LET fr == stack[k] IN
          /\ fr.seen \o Pending(fr) = Full(fr)
          /\ Cardinality(Range(fr.lo0) \cup Range(fr.ro0) \cup Range(fr.df0) \cup Range(fr.sd0))
                = Len(fr.lo0) + Len(fr.ro0) + Len(fr.df0) + Len(fr.sd0)
          /\ Range(fr.lo0) = OnlyIn(fs0, fr.left, fr.right)
          /\ Range(fr.ro0) = OnlyIn(fs0, fr.right, fr.left)
          /\ fr.phase3 =>
                Range(fr.sd0) = {n \in listdir(fs0, fr.left) \cap listdir(fs0, fr.right) :
                                    isdir(fs0, join(fr.left, n)) /\ isdir(fs0, join(fr.right, n))}
    /\ (Ran /\ Ended) => stack = <<>>
    /\ \A i, j \in DOMAIN log :
          (i < j /\ log[i].op = "validate" /\ log[j].op = "validate") => log[i].pair < log[j].pair

(* -------------------------------- C10 ---------------------------------- *)

\* C10: at every step of a run, whatever the flags: pull has left every path
\* under the origin Assets folder as it was when the run began (none created,
\* overwritten or removed), push every path under the local Assets folder, and
\* diff the whole filesystem.
C10_WriteDirection ==
    runs > 0 =>
        /\ cmd.name = "pull" => Tree(fs, <<"O">>) = Tree(fs0, <<"O">>)
        /\ cmd.name = "push" => Tree(fs, <<"L">>) = Tree(fs0, <<"L">>)
        /\ cmd.name = "diff" => fs = fs0

\* a finished pull with clean that copied, overwrote and removed
C10_Witness ==
    /\ status = "done" /\ cmd = Cmd("pull", TRUE, FALSE)
    /\ Has(log, {"removed"})
    /\ \E i \in DOMAIN log : log[i].op = "diff" /\ i < Len(log) /\ log[i + 1].op = "copy"
    /\ \E i \in DOMAIN log : log[i].op = "left_only" /\ i < Len(log) /\ log[i + 1].op = "copy"
    /\ Tree(fs, <<"L">>) # Tree(fs0, <<"L">>)

====
